---- MODULE Spec2Model ----
(***************************************************************************)
(* The LMTP command/session engine (lmtp/commands.c): one client session   *)
(* as a state machine.  Every command handler is one action; the           *)
(* collaborators the handlers call (passdb, storage service, anvil, the    *)
(* outbound proxy, the dot stream, local delivery) answer                  *)
(* nondeterministically from the outcomes their interfaces allow.          *)
(***************************************************************************)
EXTENDS Integers, Sequences, FiniteSets, TLC

(***************************************************************************)
(* Bounds of the model.                                                    *)
(***************************************************************************)
\* most recipients accepted into one envelope
MaxRcpts == 2
\* most body bytes read during one DATA
MaxBody == 4
\* width of unsigned int, scaled down (UINT_MAX == 2^UintBits - 1)
UintBits == 3
\* the in-memory payload ceiling, scaled down to a few bytes
CLIENT_MAIL_DATA_MAX_INMEMORY_SIZE == 2

UINT_MAX == 2^UintBits - 1

(***************************************************************************)
(* Program constants.                                                      *)
(***************************************************************************)
LMTP_PROXY_DEFAULT_TIMEOUT_MSECS == 1000 * 125
LMTP_PROXY_DEFAULT_TTL == 5
SMTP_PROTOCOL_LMTP == "lmtp"
SMTP_PROTOCOL_SMTP == "smtp"

\* the connection's own address (client->local_ip)
local_ip == "10.0.0.1"
\* the peer's endpoint at accept time
InitRemoteIp == "10.0.0.9"
InitRemotePort == 1000

NULL == "NULL"
\* client->lhlo before any LHLO
LhloNULL == <<"(null)">>

(***************************************************************************)
(* Replies.  A reply line is its format string and the strings put into    *)
(* its %s places.  An encoded address is <<user>> or <<user, detail>>: an  *)
(* address without detail encodes to the same string as its username.      *)
(***************************************************************************)
R(fmt, args) == [fmt |-> fmt, args |-> args]

smtp_address_encode(address) ==
    IF address.detail = "" THEN <<address.user>>
    ELSE <<address.user, address.detail>>

\* smtp_address_detail_parse_temp: the username is the address without detail
DetailParseUsername(address) == address.user

ERRSTR_TEMP_MAILBOX_FAIL == "451 4.3.0 <%s> Temporary internal error"
ERRSTR_TEMP_USERDB_FAIL == "451 4.3.0 <%s> Temporary user lookup failure"

(***************************************************************************)
(* State.                                                                  *)
(***************************************************************************)
VARIABLES
    cfg,                \* settings: lmtp_proxy, lmtp_user_concurrency_limit,
                        \* ssl enabled, login trusted; the listener's port
    lhlo,               \* client->lhlo
    ssl_iostream,       \* client->ssl_iostream != NULL
    proxy_ttl,          \* client->proxy_ttl
    proxy_timeout_secs, \* client->proxy_timeout_secs
    remote_ip,          \* client->remote_ip
    remote_port,        \* client->remote_port
    io,                 \* client->io: the callback of the attached reader
    stale_io,           \* readers attached but no longer held in client->io
    dot_input,          \* client->dot_input != NULL
    proxy,              \* client->proxy
    destroyed,          \* client_destroy() was called
    state,              \* client->state
    tmpfile,            \* the spill file: its path, its bytes, its fd
    anvil_rcpt,         \* the recipient whose anvil query is pending
    pc,                 \* "idle" (in the ioloop) or "data_handle"
    received,           \* body bytes read from the dot stream in this DATA
    delivered,          \* what the last fan-out handed to delivery, and
                        \* the recipients it was for
    input_left,         \* command bytes read into client->input and not
                        \* handled yet: "none", "buffered" (the session is
                        \* not in the command reader), "handling" (it is)
    lastCmd,            \* the command line dispatched last, with its inputs
    replies,            \* reply lines written by that command
    dataReplies         \* per-recipient reply lines written after its body

sessionVars == <<lhlo, ssl_iostream, proxy_ttl, proxy_timeout_secs,
                 remote_ip, remote_port>>
ioVars == <<io, stale_io, dot_input, pc>>
vars == <<cfg, lhlo, ssl_iostream, proxy_ttl, proxy_timeout_secs, remote_ip,
          remote_port, io, stale_io, dot_input, proxy, destroyed, state,
          tmpfile, anvil_rcpt, pc, received, delivered, input_left, lastCmd,
          replies, dataReplies>>

\* the port the connection was accepted on (client->local_port)
local_port == cfg.local_port

\* i_zero(&client->state); mail_data_fd = -1
StateZero ==
    [mail_from |-> NULL, mail_params |-> NULL, rcpt_to |-> <<>>,
     added_headers |-> <<>>, mail_data |-> <<>>,
     mail_data_output |-> FALSE, mail_data_fd |-> -1]

ProxyNULL == [init |-> FALSE, ttl |-> 0, mail_from |-> NULL,
              rcpts |-> <<>>, started |-> FALSE, replied |-> 0]

TmpfileNone == [path |-> FALSE, open |-> FALSE, data |-> <<>>]

NoRcpt == <<>>

\* the settings the sessions run under: a trusted proxying front end with a
\* per-user concurrency limit, and a plain local server with TLS
Configs ==
    { [lmtp_proxy |-> TRUE,  limit |-> 1, ssl |-> FALSE, trusted |-> TRUE,
       local_port |-> 24],
      [lmtp_proxy |-> FALSE, limit |-> 0, ssl |-> TRUE,  trusted |-> FALSE,
       local_port |-> 24] }

\* the session as client_create() leaves it
Constructed ==
    /\ lhlo = LhloNULL
    /\ ssl_iostream = FALSE
    /\ proxy_ttl = LMTP_PROXY_DEFAULT_TTL
    /\ proxy_timeout_secs = 0
    /\ remote_ip = InitRemoteIp
    /\ remote_port = InitRemotePort
    /\ io = "client_input"
    /\ stale_io = {}
    /\ dot_input = FALSE
    /\ proxy = ProxyNULL
    /\ destroyed = FALSE
    /\ state = StateZero
    /\ tmpfile = TmpfileNone
    /\ anvil_rcpt = NoRcpt
    /\ pc = "idle"
    /\ received = <<>>
    /\ delivered = <<>>
    /\ input_left = "none"
    /\ lastCmd = [verb |-> "none", busy |-> FALSE, in |-> <<>>]
    /\ replies = <<>>
    /\ dataReplies = <<>>

Init == cfg \in Configs /\ Constructed

(***************************************************************************)
(* The session is busy while an anvil lookup is pending, while the body is *)
(* being read, or while the proxy is delivering.                           *)
(***************************************************************************)
AnvilPending == anvil_rcpt # NoRcpt
Busy == AnvilPending \/ dot_input \/ proxy.started

\* the callbacks of all readers attached to the client socket
Readers == (IF io = NULL THEN {} ELSE {io}) \cup stale_io
NumReaders == (IF io = NULL THEN 0 ELSE 1) + Cardinality(stale_io)

\* client_input(): the ioloop calls the command reader, which reads a line
\* and dispatches it to its handler
CanDispatch == ~destroyed /\ pc = "idle" /\ "client_input" \in Readers

Cmd(verb, in) == [verb |-> verb, busy |-> Busy, in |-> in]

(***************************************************************************)
(* io_remove(&client->io) and io_add(): adding a reader over a non-NULL    *)
(* client->io leaves the old one attached.                                 *)
(***************************************************************************)
io_remove == io' = NULL /\ stale_io' = stale_io

io_replace(cb) == io' = cb /\ stale_io' = stale_io

io_add_over(cb) ==
    /\ io' = cb
    /\ stale_io' = IF io = NULL THEN stale_io ELSE stale_io \cup {io}

client_io_reset == io_replace("client_input")

(***************************************************************************)
(* client_state_reset(): the proxy session is deinitialised, pending       *)
(* lookups are aborted, the payload sink is freed and closed, and the      *)
(* state record is zeroed.                                                 *)
(***************************************************************************)
client_state_reset_sink(tf) ==
    /\ proxy' = ProxyNULL
    /\ state' = StateZero
    /\ anvil_rcpt' = NoRcpt
    /\ tmpfile' = [path |-> tf.path, open |-> FALSE, data |-> <<>>]
    /\ received' = <<>>

client_state_reset == client_state_reset_sink(tmpfile)

\* client_destroy(): the session is torn down
client_destroy_sink(tf) ==
    /\ destroyed' = TRUE
    /\ io' = NULL
    /\ stale_io' = {}
    /\ dot_input' = FALSE
    /\ pc' = "idle"
    /\ client_state_reset_sink(tf)

client_destroy == client_destroy_sink(tmpfile)

(***************************************************************************)
(* Reply lines: a line whose code is followed by '-' continues a           *)
(* multi-line reply; every other line ends one reply.                      *)
(***************************************************************************)
ContinuationFmts ==
    {"250-%s", "250-STARTTLS", "250-XCLIENT ADDR PORT TTL TIMEOUT",
     "250-8BITMIME", "250-ENHANCEDSTATUSCODES"}

RECURSIVE NumReplies(_)
NumReplies(lines) ==
    IF lines = <<>> THEN 0
    ELSE (IF Head(lines).fmt \in ContinuationFmts THEN 0 ELSE 1)
         + NumReplies(Tail(lines))

\* client->my_domain
my_domain == <<"mx.example">>

(***************************************************************************)
(* LHLO                                                                    *)
(***************************************************************************)
IS_ATEXT(c) == c \in {"a", "b", "1"}

\* rfc822_parse_dot_atom(): atoms joined by dots are copied to the domain;
\* parsing stops at the first character that continues no dot-atom
RECURSIVE DotAtomFrom(_, _, _)
DotAtomFrom(args, i, acc) ==
    IF i > Len(args) THEN [ret |-> 0, domain |-> acc]
    ELSE IF IS_ATEXT(args[i]) THEN DotAtomFrom(args, i + 1, Append(acc, args[i]))
    ELSE IF args[i] # "." THEN [ret |-> 1, domain |-> acc]
    ELSE IF i + 1 > Len(args) \/ ~IS_ATEXT(args[i + 1])
         THEN [ret |-> -1, domain |-> Append(acc, ".")]
    ELSE DotAtomFrom(args, i + 1, Append(acc, "."))

rfc822_parse_dot_atom(args) ==
    IF args = <<>> \/ ~IS_ATEXT(args[1]) THEN [ret |-> -1, domain |-> <<>>]
    ELSE DotAtomFrom(args, 1, <<>>)

\* for (p = args+1; *p != ']'; p++) if (*p == '\\' || *p == '[') break;
\* the position the scan stops at; Len(args) + 1 is the terminating NUL,
\* which stops nothing, and Len(args) + 2 is beyond the argument
RECURSIVE LiteralScan(_, _)
LiteralScan(args, p) ==
    IF p > Len(args) + 1 THEN p
    ELSE IF p = Len(args) + 1 THEN LiteralScan(args, p + 1)
    ELSE IF args[p] \in {"]", "\\", "["} THEN p
    ELSE LiteralScan(args, p + 1)

\* strcmp(p, "]") != 0
LiteralRest(args, p) == SubSeq(args, p, Len(args))

\* the outcomes of the LHLO argument: the parse result and the domain
\* string; a scan that ran beyond the argument read memory that is not the
\* argument's, and the build decides what it found there (oob)
LhloParse(args, oob) ==
    IF args[1] # "["
    THEN rfc822_parse_dot_atom(args)
    ELSE LET p == LiteralScan(args, 2) IN
         IF p > Len(args) + 1
         THEN [ret |-> IF oob = "bracket" THEN 0 ELSE -1, domain |-> <<>>]
         ELSE [ret |-> IF LiteralRest(args, p) # <<"]">> THEN -1 ELSE 0,
               domain |-> <<>>]

LhloScanOverruns(args) ==
    /\ args # <<>>
    /\ args[1] = "["
    /\ LiteralScan(args, 2) > Len(args) + 1

LhloDomain(args, oob) ==
    LET r == LhloParse(args, oob) IN
    IF r.ret < 0 THEN <<"i", "n", "v", "a", "l", "i", "d">> ELSE r.domain

LhloLines ==
    <<R("250-%s", <<my_domain>>)>>
    \o (IF cfg.ssl /\ ~ssl_iostream THEN <<R("250-STARTTLS", <<>>)>> ELSE <<>>)
    \o (IF cfg.trusted
        THEN <<R("250-XCLIENT ADDR PORT TTL TIMEOUT", <<>>)>> ELSE <<>>)
    \o <<R("250-8BITMIME", <<>>), R("250-ENHANCEDSTATUSCODES", <<>>),
         R("250 PIPELINING", <<>>)>>

cmd_lhlo(args, oob) ==
    /\ CanDispatch
    /\ lastCmd' = Cmd("LHLO", <<args>>)
    /\ dataReplies' = <<>>
    /\ delivered' = <<>>
    /\ input_left' = "none"
    /\ IF args = <<>>
       THEN /\ replies' = <<R("501 Missing hostname", <<>>)>>
            /\ UNCHANGED <<cfg, sessionVars, ioVars, proxy, destroyed, state,
                           tmpfile, anvil_rcpt, received>>
       ELSE /\ client_state_reset
            /\ replies' = LhloLines
            /\ lhlo' = LhloDomain(args, oob)
            /\ UNCHANGED <<cfg, ssl_iostream, proxy_ttl, proxy_timeout_secs,
                           remote_ip, remote_port, ioVars, destroyed>>

(***************************************************************************)
(* STARTTLS                                                                *)
(***************************************************************************)
cmd_starttls(ssl_init, handshake) ==
    /\ CanDispatch
    /\ lastCmd' = Cmd("STARTTLS", <<ssl_init, handshake>>)
    /\ dataReplies' = <<>>
    /\ delivered' = <<>>
    /\ input_left' = "none"
    /\ IF ssl_iostream
       THEN /\ replies' = <<R("443 5.5.1 TLS is already active.", <<>>)>>
            /\ UNCHANGED <<cfg, sessionVars, ioVars, proxy, destroyed, state,
                           tmpfile, anvil_rcpt, received>>
       ELSE IF ssl_init < 0
       THEN /\ replies' =
                <<R("454 4.7.0 Internal error, TLS not available.", <<>>)>>
            /\ UNCHANGED <<cfg, sessionVars, ioVars, proxy, destroyed, state,
                           tmpfile, anvil_rcpt, received>>
       ELSE /\ replies' = <<R("220 2.0.0 Begin TLS negotiation now.", <<>>)>>
            /\ ssl_iostream' = TRUE
            /\ IF handshake < 0
               THEN /\ client_destroy
                    /\ UNCHANGED <<cfg, lhlo, proxy_ttl, proxy_timeout_secs,
                                   remote_ip, remote_port>>
               ELSE UNCHANGED <<cfg, lhlo, proxy_ttl, proxy_timeout_secs,
                                remote_ip, remote_port, ioVars, proxy,
                                destroyed, state, tmpfile, anvil_rcpt,
                                received>>

(***************************************************************************)
(* MAIL                                                                    *)
(***************************************************************************)
\* what MAIL's argument parses to: whether it starts with FROM:, the path
\* ("bad" when smtp_address_parse_path_full fails), the character after the
\* path, and the result of smtp_params_mail_parse on the rest
MailArgs ==
    { [from |-> FALSE, path |-> "bad", rest |-> "", params |-> "ok"],
      [from |-> TRUE, path |-> "bad", rest |-> "", params |-> "ok"],
      [from |-> TRUE, path |-> "s@x", rest |-> "x", params |-> "ok"],
      [from |-> TRUE, path |-> "s@x", rest |-> "", params |-> "ok"],
      [from |-> TRUE, path |-> "<>", rest |-> " ", params |-> "ok"],
      [from |-> TRUE, path |-> "s@x", rest |-> " ", params |-> "BAD_SYNTAX"],
      [from |-> TRUE, path |-> "s@x", rest |-> " ",
       params |-> "NOT_SUPPORTED"] }

\* the parsed Mail-parameters stored in client->state.mail_params
MailParams(a) == IF a.rest = " " THEN "BODY=8BITMIME" ELSE "none"

\* the same test forgotten: a second MAIL would start a new envelope
cmd_mail_never_given == FALSE

\* if (client->state.mail_from != NULL)
cmd_mail_already_given == state.mail_from # NULL

cmd_mail_reply(a) ==
    IF cmd_mail_already_given THEN R("503 5.5.1 MAIL already given", <<>>)
    ELSE IF ~a.from THEN R("501 5.5.4 Invalid parameters", <<>>)
    ELSE IF a.path = "bad" THEN R("501 5.5.4 Invalid FROM: %s", <<<<"error">>>>)
    ELSE IF a.rest \notin {"", " "}
    THEN R("501 5.5.4 Invalid FROM: Invalid character in path", <<>>)
    ELSE IF a.params = "BAD_SYNTAX" THEN R("501 5.5.4 %s", <<<<"error">>>>)
    ELSE IF a.params = "NOT_SUPPORTED" THEN R("555 5.5.4 %s", <<<<"error">>>>)
    ELSE R("250 2.1.0 OK", <<>>)

\* whether cmd_mail reaches the assignment of client->state.mail_from
cmd_mail_accepts(a) ==
    /\ ~cmd_mail_already_given
    /\ a.from
    /\ a.path # "bad"
    /\ a.rest \in {"", " "}
    /\ a.params = "ok"

cmd_mail(a) ==
    /\ CanDispatch
    /\ lastCmd' = Cmd("MAIL", <<a>>)
    /\ dataReplies' = <<>>
    /\ delivered' = <<>>
    /\ input_left' = "none"
    /\ replies' = <<cmd_mail_reply(a)>>
    /\ state' = IF cmd_mail_accepts(a)
                THEN [state EXCEPT !.mail_from = a.path,
                                   !.mail_params = MailParams(a),
                                   !.rcpt_to = <<>>]
                ELSE state
    /\ UNCHANGED <<cfg, sessionVars, ioVars, proxy, destroyed, tmpfile,
                   anvil_rcpt, received>>

(***************************************************************************)
(* QUIT, VRFY, RSET, NOOP                                                  *)
(***************************************************************************)
cmd_quit ==
    /\ CanDispatch
    /\ lastCmd' = Cmd("QUIT", <<>>)
    /\ dataReplies' = <<>>
    /\ delivered' = <<>>
    /\ input_left' = "none"
    /\ replies' = <<R("221 2.0.0 OK", <<>>)>>
    /\ client_destroy
    /\ UNCHANGED <<cfg, sessionVars>>

cmd_vrfy ==
    /\ CanDispatch
    /\ lastCmd' = Cmd("VRFY", <<>>)
    /\ dataReplies' = <<>>
    /\ delivered' = <<>>
    /\ input_left' = "none"
    /\ replies' = <<R("252 2.3.3 Try RCPT instead", <<>>)>>
    /\ UNCHANGED <<cfg, sessionVars, ioVars, proxy, destroyed, state, tmpfile,
                   anvil_rcpt, received>>

\* RSET that answers without calling client_state_reset()
cmd_rset_without_reset ==
    /\ CanDispatch
    /\ lastCmd' = Cmd("RSET", <<>>)
    /\ dataReplies' = <<>>
    /\ delivered' = <<>>
    /\ input_left' = "none"
    /\ replies' = <<R("250 2.0.0 OK", <<>>)>>
    /\ UNCHANGED <<cfg, sessionVars, ioVars, proxy, destroyed, state, tmpfile,
                   anvil_rcpt, received>>

cmd_rset ==
    /\ CanDispatch
    /\ lastCmd' = Cmd("RSET", <<>>)
    /\ dataReplies' = <<>>
    /\ delivered' = <<>>
    /\ input_left' = "none"
    /\ client_state_reset
    /\ replies' = <<R("250 2.0.0 OK", <<>>)>>
    /\ UNCHANGED <<cfg, sessionVars, ioVars, destroyed>>

cmd_noop ==
    /\ CanDispatch
    /\ lastCmd' = Cmd("NOOP", <<>>)
    /\ dataReplies' = <<>>
    /\ delivered' = <<>>
    /\ input_left' = "none"
    /\ replies' = <<R("250 2.0.0 OK", <<>>)>>
    /\ UNCHANGED <<cfg, sessionVars, ioVars, proxy, destroyed, state, tmpfile,
                   anvil_rcpt, received>>

(***************************************************************************)
(* RCPT: the passdb record of a proxied recipient                          *)
(***************************************************************************)
\* net_addr2ip(): the strings that are IP addresses
IPs == {local_ip, "10.0.0.2"}
IPs6 == {"::1"}
net_addr2ip(value) ==
    IF value \in IPs \cup IPs6 THEN [ret |-> 0, ip |-> value]
    ELSE [ret |-> -1, ip |-> NULL]

\* net_str2port(): a decimal port number in 1..65535
net_str2port(value) ==
    CASE value = "24" -> [ret |-> 0, port |-> 24]
      [] value = "25" -> [ret |-> 0, port |-> 25]
      [] value = "2525" -> [ret |-> 0, port |-> 2525]
      [] value = "2000" -> [ret |-> 0, port |-> 2000]
      [] OTHER -> [ret |-> -1, port |-> 0]

\* str_to_uint(): a decimal number that fits an unsigned int
str_to_uint(value) ==
    CASE value = "0" -> [ret |-> 0, num |-> 0]
      [] value = "1" -> [ret |-> 0, num |-> 1]
      [] value = "2" -> [ret |-> 0, num |-> 2]
      [] value = "3" -> [ret |-> 0, num |-> 3]
      [] value = "30" -> [ret |-> 0, num |-> 30]
      [] value = "UINT_MAX" -> [ret |-> 0, num |-> UINT_MAX]
      [] OTHER -> [ret |-> -1, num |-> 0]

\* i_zero(&set) and the defaults client_proxy_rcpt gives it
ProxyRcptSetDefault ==
    [host |-> NULL, hostip |-> NULL, port |-> local_port,
     protocol |-> SMTP_PROTOCOL_LMTP,
     timeout_msecs |-> LMTP_PROXY_DEFAULT_TIMEOUT_MSECS]

\* one turn of the loop over the passdb fields; a field is <<key, value>>
ParseField(st, f) ==
    LET key == f[1]
        value == f[2]
    IN
    IF key = "proxy" THEN [st EXCEPT !.proxying = TRUE]
    ELSE IF key = "host" THEN [st EXCEPT !.set.host = value]
    ELSE IF key = "hostip" THEN
        IF net_addr2ip(value).ret < 0 THEN [st EXCEPT !.err = TRUE]
        ELSE [st EXCEPT !.set.hostip = net_addr2ip(value).ip]
    ELSE IF key = "port" THEN
        IF net_str2port(value).ret < 0 THEN [st EXCEPT !.err = TRUE]
        ELSE [st EXCEPT !.set.port = net_str2port(value).port,
                        !.port_set = TRUE]
    ELSE IF key = "proxy_timeout" THEN
        IF str_to_uint(value).ret < 0 THEN [st EXCEPT !.err = TRUE]
        ELSE [st EXCEPT !.set.timeout_msecs = str_to_uint(value).num * 1000]
    ELSE IF key = "protocol" THEN
        IF value = "lmtp"
        THEN [st EXCEPT !.set.protocol = SMTP_PROTOCOL_LMTP,
                        !.set.port = IF st.port_set THEN @ ELSE 24]
        ELSE IF value = "smtp"
        THEN [st EXCEPT !.set.protocol = SMTP_PROTOCOL_SMTP,
                        !.set.port = IF st.port_set THEN @ ELSE 25]
        ELSE [st EXCEPT !.err = TRUE]
    ELSE IF key \in {"user", "destuser"} THEN [st EXCEPT !.address = value]
    ELSE st

RECURSIVE ParseFieldsLoop(_, _, _)
ParseFieldsLoop(args, i, st) ==
    IF i > Len(args) \/ st.err THEN st
    ELSE ParseFieldsLoop(args, i + 1, ParseField(st, args[i]))

\* returns whether the recipient is proxied, with the settings and the
\* (possibly rewritten) username
client_proxy_rcpt_parse_fields(set, args, address) ==
    LET st == ParseFieldsLoop(args, 1,
                  [set |-> set, proxying |-> FALSE, port_set |-> FALSE,
                   address |-> address, err |-> FALSE])
    IN
    [ret |-> IF st.err THEN FALSE
             ELSE IF st.proxying /\ st.set.host = NULL THEN FALSE
             ELSE st.proxying,
     set |-> st.set,
     address |-> st.address]

client_proxy_is_ourself(set) ==
    IF set.port # local_port THEN FALSE
    ELSE LET ip == IF set.hostip # NULL THEN [ret |-> 0, ip |-> set.hostip]
                   ELSE net_addr2ip(set.host)
         IN
         IF ip.ret < 0 THEN FALSE
         ELSE ip.ip = local_ip

\* smtp_address_parse_username(): the usernames that are no SMTP address
InvalidUsernames == {"bad user"}
smtp_address_parse_username(username) ==
    IF username \in InvalidUsernames THEN [ret |-> -1, user |-> NULL]
    ELSE [ret |-> 0, user |-> username]

\* if (client->proxy_ttl <= 1)
proxy_ttl_exhausted(ttl) == ttl <= 1

\* proxy_set.proxy_ttl = client->proxy_ttl-1, in unsigned arithmetic
proxy_set_proxy_ttl(ttl) == (ttl - 1) % (2^UintBits)

\* if (array_count(&client->state.rcpt_to) != 0), before a proxy recipient
proxy_rcpt_is_mixed(rcpt_to) == Len(rcpt_to) # 0

\* the same test forgotten: a local recipient would join a proxied envelope
local_rcpt_never_mixed(p) == FALSE

\* if (client->proxy != NULL), before a local recipient
local_rcpt_is_mixed(p) == p.init

\* lmtp_proxy_init() and lmtp_proxy_mail_from()
lmtp_proxy_init(ttl, mail_from) ==
    [init |-> TRUE, ttl |-> ttl, mail_from |-> mail_from, rcpts |-> <<>>,
     started |-> FALSE, replied |-> 0]

\* lmtp_proxy_add_rcpt(): a recipient is added unless connecting failed
lmtp_proxy_add_rcpt(p, address, set, ret) ==
    IF ret < 0 THEN p
    ELSE [p EXCEPT !.rcpts = Append(@, [address |-> address, set |-> set])]

(***************************************************************************)
(* client_proxy_rcpt(): the result is whether the command was handled, the *)
(* reply lines written and the proxy session left behind.  pd is the       *)
(* passdb lookup's answer, add_ret what lmtp_proxy_add_rcpt returns.       *)
(***************************************************************************)
client_proxy_rcpt(address, username, detail, pd, add_ret) ==
    LET none == [ret |-> FALSE, out |-> <<>>, proxy |-> proxy]
        P == client_proxy_rcpt_parse_fields(ProxyRcptSetDefault, pd.fields,
                                            username)
        U == smtp_address_parse_username(P.address)
        changed == P.address # username
        address2 == IF ~changed THEN address
                    ELSE [user |-> U.user, detail |-> detail]
        proxy2 == IF proxy.init THEN proxy
                  ELSE lmtp_proxy_init(proxy_set_proxy_ttl(proxy_ttl),
                                       state.mail_from)
    IN
    IF pd.ret < 0
    THEN [none EXCEPT !.ret = TRUE,
               !.out = IF pd.reason # NULL
                       THEN <<R("%s", <<<<pd.reason>>>>)>>
                       ELSE <<R(ERRSTR_TEMP_USERDB_FAIL,
                                <<smtp_address_encode(address)>>)>>]
    ELSE IF pd.ret = 0 THEN none
    ELSE IF ~P.ret THEN none
    ELSE IF changed /\ U.ret < 0
    THEN [none EXCEPT
              !.out = <<R("550 5.3.5 <%s> Internal user lookup failure",
                          <<smtp_address_encode(address)>>)>>]
    ELSE IF ~changed /\ client_proxy_is_ourself(P.set)
    THEN [none EXCEPT !.ret = TRUE,
              !.out = <<R("554 5.4.6 <%s> Proxying loops to itself",
                          <<smtp_address_encode(address)>>)>>]
    ELSE IF proxy_ttl_exhausted(proxy_ttl)
    THEN [none EXCEPT !.ret = TRUE,
              !.out = <<R("554 5.4.6 <%s> Proxying appears to be looping (TTL=0)",
                          <<<<P.address>>>>)>>]
    ELSE IF proxy_rcpt_is_mixed(state.rcpt_to)
    THEN [none EXCEPT !.ret = TRUE,
              !.out = <<R("451 4.3.0 <%s> Can't handle mixed proxy/non-proxy destinations",
                          <<smtp_address_encode(address2)>>)>>]
    ELSE [ret |-> TRUE,
          out |-> IF add_ret < 0
                  THEN <<R("451 4.4.0 Remote server not answering", <<>>)>>
                  ELSE <<R("250 2.1.5 OK", <<>>)>>,
          proxy |-> lmtp_proxy_add_rcpt(proxy2, address2, P.set, add_ret)]

(***************************************************************************)
(* RCPT                                                                    *)
(***************************************************************************)
\* the count forgotten: every recipient carries the session's own id
rcpt_session_id_base(rcpt_to) == <<>>

\* rcpt->session_id: the session's id for the first recipient (<<>>), and
\* "%s:%u" with the recipient's number for the others (<<k>>)
rcpt_session_id(rcpt_to) ==
    IF Len(rcpt_to) = 0 THEN <<>> ELSE <<Len(rcpt_to) + 1>>

\* cmd_rcpt_finish(): the recipient is added to the envelope and accepted
cmd_rcpt_finish(rcpt_to, rcpt) == Append(rcpt_to, rcpt)

\* io_remove(&client->io) before the anvil query is sent
cmd_rcpt_detach == io_remove

\* the same test forgotten: RCPT would go on without an envelope
cmd_rcpt_mail_never_needed == FALSE

\* if (client->state.mail_from == NULL)
cmd_rcpt_mail_needed == state.mail_from = NULL

\* the reply of the tests before any lookup, or <<>> when they all pass
cmd_rcpt_early(a) ==
    IF cmd_rcpt_mail_needed
    THEN <<R("503 5.5.1 MAIL needed first", <<>>)>>
    ELSE IF a.args = "no_to"
    THEN <<R("501 5.5.4 Invalid parameters", <<>>)>>
    ELSE IF a.args = "bad_path"
    THEN <<R("501 5.5.4 Invalid TO: %s", <<<<"error">>>>)>>
    ELSE IF a.args = "bad_char"
    THEN <<R("501 5.5.4 Invalid TO: Invalid character in path", <<>>)>>
    ELSE IF a.args = "BAD_SYNTAX"
    THEN <<R("501 5.5.4 %s", <<<<"error">>>>)>>
    ELSE IF a.args = "NOT_SUPPORTED"
    THEN <<R("555 5.5.4 %s", <<<<"error">>>>)>>
    ELSE <<>>

\* a is the command's argument and what the collaborators answer while it
\* is handled: args (how the argument parses), address, pd (passdb),
\* lookup (mail_storage_service_lookup), add (lmtp_proxy_add_rcpt),
\* anvil ("null": anvil_client_query called back at once and returned NULL)
cmd_rcpt(a) ==
    LET address == a.address
        username == DetailParseUsername(address)
        detail == address.detail
        early == cmd_rcpt_early(a)
        PR == IF cfg.lmtp_proxy
              THEN client_proxy_rcpt(address, username, detail, a.pd, a.add)
              ELSE [ret |-> FALSE, out |-> <<>>, proxy |-> proxy]
        rcpt == [address |-> address,
                 session_id |-> rcpt_session_id(state.rcpt_to)]
        same == /\ UNCHANGED <<proxy, state, anvil_rcpt, io, stale_io>>
    IN
    /\ CanDispatch
    /\ lastCmd' = Cmd("RCPT", <<a>>)
    /\ dataReplies' = <<>>
    /\ delivered' = <<>>
    /\ input_left' = "none"
    /\ UNCHANGED <<cfg, sessionVars, dot_input, pc, destroyed, tmpfile,
                   received>>
    /\ IF early # <<>>
       THEN replies' = early /\ same
       ELSE IF PR.ret
       THEN /\ replies' = PR.out
            /\ proxy' = PR.proxy
            /\ UNCHANGED <<state, anvil_rcpt, io, stale_io>>
       ELSE IF a.lookup < 0
       THEN /\ replies' = PR.out \o
                <<R(ERRSTR_TEMP_MAILBOX_FAIL, <<smtp_address_encode(address)>>)>>
            /\ same
       ELSE IF a.lookup = 0
       THEN /\ replies' = PR.out \o
                <<R("550 5.1.1 <%s> User doesn't exist: %s",
                    <<smtp_address_encode(address), <<username>>>>)>>
            /\ same
       ELSE IF local_rcpt_is_mixed(proxy)
       THEN /\ replies' = PR.out \o
                <<R("451 4.3.0 <%s> Can't handle mixed proxy/non-proxy destinations",
                    <<smtp_address_encode(address)>>)>>
            /\ same
       ELSE IF cfg.limit = 0
       THEN /\ replies' = PR.out \o <<R("250 2.1.5 OK", <<>>)>>
            /\ state' = [state EXCEPT
                             !.rcpt_to = cmd_rcpt_finish(@, rcpt)]
            /\ UNCHANGED <<proxy, anvil_rcpt, io, stale_io>>
       ELSE IF a.anvil = "null"
       THEN \* the callback ran inside anvil_client_query(): the recipient
            \* is finished and the command reader is attached again
            /\ replies' = PR.out \o <<R("250 2.1.5 OK", <<>>)>>
            /\ state' = [state EXCEPT
                             !.rcpt_to = cmd_rcpt_finish(@, rcpt)]
            /\ client_io_reset
            /\ UNCHANGED <<proxy, anvil_rcpt>>
       ELSE /\ replies' = PR.out
            /\ cmd_rcpt_detach
            /\ anvil_rcpt' = <<rcpt>>
            /\ UNCHANGED <<proxy, state>>

\* rcpt_anvil_lookup_callback(): the registry answered with the user's
\* number of parallel deliveries
rcpt_anvil_lookup_callback(parallel_count) ==
    /\ ~destroyed
    /\ pc = "idle"
    /\ AnvilPending
    /\ anvil_rcpt' = NoRcpt
    /\ IF parallel_count >= cfg.limit
       THEN /\ replies' = Append(replies,
                R("451 4.3.0 <%s> Too many concurrent connections",
                  <<smtp_address_encode(anvil_rcpt[1].address)>>))
            /\ state' = state
       ELSE /\ replies' = Append(replies, R("250 2.1.5 OK", <<>>))
            /\ state' = [state EXCEPT
                             !.rcpt_to = cmd_rcpt_finish(@, anvil_rcpt[1])]
    /\ client_io_reset
    /\ UNCHANGED <<cfg, input_left, sessionVars, dot_input, pc, proxy,
                   destroyed, tmpfile, received, delivered, lastCmd,
                   dataReplies>>

(***************************************************************************)
(* DATA                                                                    *)
(***************************************************************************)
\* client_get_added_headers(); policy is the single recipient's
\* lmtp_hdr_delivery_address setting
client_get_added_headers(policy) ==
    LET n == Len(state.rcpt_to)
        rcpt_to == IF n = 1 /\ policy \in {"FINAL", "ORIGINAL"}
                   THEN <<smtp_address_encode(state.rcpt_to[1].address)>>
                   ELSE <<>>
    IN
    (IF n > 0
     THEN <<R("Return-Path: <%s>", <<<<state.mail_from>>>>)>>
          \o (IF rcpt_to # <<>> THEN <<R("Delivered-To: %s", rcpt_to)>>
              ELSE <<>>)
     ELSE <<>>)
    \o <<R("Received: from %s", <<lhlo>>)>>
    \o <<R(" ([%s])", <<<<remote_ip>>>>)>>
    \o (IF ssl_iostream THEN <<R("(using %s)", <<>>)>> ELSE <<>>)
    \o <<R("by %s with LMTP id %s", <<my_domain>>)>>
    \o (IF rcpt_to # <<>> THEN <<R("for <%s>", rcpt_to)>> ELSE <<>>)
    \o <<R("; %s", <<>>)>>

\* if (array_count(&client->state.rcpt_to) == 0 && client->proxy == NULL)
cmd_data_no_rcpts == Len(state.rcpt_to) = 0 /\ ~proxy.init

\* the io_remove() forgotten: the body reader is added beside the command
\* reader
cmd_data_adds_reader == io_add_over("client_input_data")

\* io_remove(&client->io); client->io = io_add(..., client_input_data, ...)
cmd_data_switch_reader == io_replace("client_input_data")

cmd_data(policy) ==
    /\ CanDispatch
    /\ lastCmd' = Cmd("DATA", <<policy>>)
    /\ dataReplies' = <<>>
    /\ delivered' = <<>>
    /\ input_left' = "none"
    /\ IF state.mail_from = NULL
       THEN /\ replies' = <<R("503 5.5.1 MAIL needed first", <<>>)>>
            /\ UNCHANGED <<cfg, sessionVars, ioVars, proxy, destroyed, state,
                           tmpfile, anvil_rcpt, received>>
       ELSE IF cmd_data_no_rcpts
       THEN /\ replies' = <<R("554 5.5.1 No valid recipients", <<>>)>>
            /\ UNCHANGED <<cfg, sessionVars, ioVars, proxy, destroyed, state,
                           tmpfile, anvil_rcpt, received>>
       ELSE /\ state' = [state EXCEPT
                             !.added_headers = client_get_added_headers(policy),
                             !.mail_data = <<<<>>>>]
            /\ dot_input' = TRUE
            /\ replies' = <<R("354 OK", <<>>)>>
            /\ cmd_data_switch_reader
            /\ pc' = "data_handle"
            /\ UNCHANGED <<cfg, sessionVars, proxy, destroyed, tmpfile,
                           anvil_rcpt, received>>

\* client_input_data(): more input arrived while the body is being read;
\* client_input_read() destroys the session when the connection is gone
client_input_data(read_ret) ==
    /\ ~destroyed
    /\ pc = "idle"
    /\ dot_input
    /\ "client_input_data" \in Readers
    /\ IF read_ret < 0
       THEN /\ client_destroy
            /\ UNCHANGED <<cfg, input_left, sessionVars, delivered, lastCmd,
                           replies, dataReplies>>
       ELSE /\ pc' = "data_handle"
            /\ UNCHANGED <<cfg, input_left, sessionVars, io, stale_io,
                           dot_input, proxy, destroyed, state, tmpfile,
                           anvil_rcpt, received, delivered, lastCmd, replies,
                           dataReplies>>

(***************************************************************************)
(* The payload sink                                                        *)
(***************************************************************************)
\* the next size bytes of the body: each byte is its position in the body
NextChunk(size) == [i \in 1..size |-> Len(received) + i]

MailDataUsed == Len(state.mail_data[1])

\* the unlink's result ignored: the file would be used under its name
i_unlink_never_failed(io_ret) == FALSE

\* if (i_unlink(str_c(path)) < 0)
i_unlink_failed(io_ret) == io_ret = "unlink_fail"

\* the buffer forgotten: only the new chunk would reach the file
spill_new_chunk_only(buf, data) == data

\* o_stream_nsend() of the in-memory buffer, then of the new chunk
spill_first_write(buf, data) == buf \o data

\* client_input_add_file(): what the system calls answer is io_ret
\* ("ok", "mkstemp_fail", "unlink_fail", "write_fail")
client_input_add_file(data, io_ret) ==
    IF state.mail_data_output
    THEN \* continue writing to file
         IF io_ret = "write_fail"
         THEN [ret |-> -1, state |-> state, tmpfile |-> tmpfile]
         ELSE [ret |-> 0, state |-> state,
               tmpfile |-> [tmpfile EXCEPT !.data = @ \o data]]
    ELSE IF io_ret = "mkstemp_fail"
    THEN [ret |-> -1, state |-> state, tmpfile |-> tmpfile]
    ELSE LET \* the file keeps its name when the unlink did not succeed
             named == io_ret = "unlink_fail"
             st == [state EXCEPT !.mail_data_fd = 3,
                                 !.mail_data_output = TRUE]
         IN
         IF i_unlink_failed(io_ret)
         THEN [ret |-> -1, state |-> state,
               tmpfile |-> [path |-> named, open |-> FALSE, data |-> <<>>]]
         ELSE IF io_ret = "write_fail"
         THEN [ret |-> -1, state |-> st,
               tmpfile |-> [path |-> named, open |-> TRUE, data |-> <<>>]]
         ELSE [ret |-> 0, state |-> st,
               tmpfile |-> [path |-> named, open |-> TRUE,
                            data |-> spill_first_write(state.mail_data[1],
                                                       data)]]

\* the open file forgotten: an append that fits would go to the buffer again
client_input_add_in_memory_any_sink(size) ==
    MailDataUsed + size <= CLIENT_MAIL_DATA_MAX_INMEMORY_SIZE

\* whether client_input_add() keeps the bytes in memory
client_input_add_in_memory(size) ==
    /\ MailDataUsed + size <= CLIENT_MAIL_DATA_MAX_INMEMORY_SIZE
    /\ ~state.mail_data_output

client_input_add(data, io_ret) ==
    IF client_input_add_in_memory(Len(data))
    THEN [ret |-> 0,
          state |-> [state EXCEPT !.mail_data = <<@[1] \o data>>],
          tmpfile |-> tmpfile]
    ELSE client_input_add_file(data, io_ret)

\* the system call outcomes that matter to one append
AddOutcomes(size) ==
    IF pc # "data_handle" THEN {}
    ELSE IF client_input_add_in_memory(size) THEN {"ok"}
    ELSE IF state.mail_data_output THEN {"ok", "write_fail"}
    ELSE {"ok", "mkstemp_fail", "unlink_fail", "write_fail"}

(***************************************************************************)
(* client_input_data_handle(): one turn of its read loop, or its end       *)
(***************************************************************************)
\* the result ignored: the read loop would go on after a failed append
client_input_add_never_failed(ret) == FALSE

\* if (client_input_add(client, data, size) < 0)
client_input_add_failed(ret) == ret < 0

\* i_stream_read() returned data
DataHandleRead(size, io_ret) ==
    LET A == client_input_add(NextChunk(size), io_ret) IN
    /\ ~destroyed
    /\ pc = "data_handle"
    /\ Len(received) + size <= MaxBody
    /\ IF client_input_add_failed(A.ret)
       THEN /\ client_destroy_sink(A.tmpfile)
            /\ dataReplies' = Append(dataReplies,
                   R("451 4.3.0 Temporary internal failure", <<>>))
            /\ UNCHANGED <<cfg, input_left, sessionVars, delivered, lastCmd,
                           replies>>
       ELSE /\ state' = A.state
            /\ tmpfile' = A.tmpfile
            /\ received' = received \o NextChunk(size)
            /\ UNCHANGED <<cfg, input_left, sessionVars, ioVars, proxy,
                           destroyed, anvil_rcpt, delivered, lastCmd, replies,
                           dataReplies>>

\* i_stream_read() returned 0: no more data yet
DataHandleWait ==
    /\ ~destroyed
    /\ pc = "data_handle"
    /\ pc' = "idle"
    /\ UNCHANGED <<cfg, input_left, sessionVars, io, stale_io, dot_input,
                   proxy, destroyed, state, tmpfile, anvil_rcpt, received,
                   delivered, lastCmd, replies, dataReplies>>

\* i_stream_read() returned -1 with stream_errno set
DataHandleError ==
    /\ ~destroyed
    /\ pc = "data_handle"
    /\ client_destroy
    /\ UNCHANGED <<cfg, input_left, sessionVars, delivered, lastCmd, replies,
                   dataReplies>>

(***************************************************************************)
(* Delivery fan-out                                                        *)
(***************************************************************************)
\* the loop left after its first turn: only the first recipient is answered
client_rcpt_fail_first(rcpt_to) ==
    IF rcpt_to = <<>> THEN <<>>
    ELSE <<R(ERRSTR_TEMP_MAILBOX_FAIL,
             <<smtp_address_encode(rcpt_to[1].address)>>)>>

client_rcpt_fail_all(rcpt_to) ==
    [i \in 1..Len(rcpt_to) |->
        R(ERRSTR_TEMP_MAILBOX_FAIL, <<smtp_address_encode(rcpt_to[i].address)>>)]

\* client_deliver_to_rcpts(): every recipient in turn gets its reply
client_deliver_to_rcpts(rcpt_to, status) ==
    [i \in 1..Len(rcpt_to) |->
        R(status[i], <<smtp_address_encode(rcpt_to[i].address)>>)]

DeliveryStatuses == {"250 2.0.0 <%s> Saved", "451 4.2.0 <%s> Delivery failed"}

\* client_get_input(): the added headers, then the payload from the file
\* when there is one and from the buffer otherwise
client_get_input ==
    [headers |-> state.added_headers,
     body |-> IF state.mail_data_output THEN tmpfile.data
              ELSE state.mail_data[1]]

\* the call forgotten: buffered commands would wait for the next socket
\* input
client_input_data_finish_returns(left) == left

\* if (i_stream_have_bytes_left(client->input)) client_input_handle(client)
client_input_data_finish_handle(left) ==
    IF left = "buffered" THEN "handling" ELSE left

\* left is what client->input holds when the fan-out is finished
client_input_data_finish(left) ==
    /\ client_io_reset
    /\ client_state_reset
    /\ input_left' = client_input_data_finish_handle(left)

\* client_input_data_write(): the ending "." line was seen; bytes_left is
\* whether the read that brought it also brought commands sent behind it
client_input_data_write(open_ret, status, bytes_left) ==
    LET input == client_get_input
        to == [i \in 1..Len(state.rcpt_to) |-> state.rcpt_to[i].address]
              \o [i \in 1..Len(proxy.rcpts) |-> proxy.rcpts[i].address]
        local == IF Len(state.rcpt_to) = 0 THEN <<>>
                 ELSE IF open_ret < 0 THEN client_rcpt_fail_all(state.rcpt_to)
                 ELSE client_deliver_to_rcpts(state.rcpt_to, status)
        left == IF bytes_left THEN "buffered" ELSE "none"
    IN
    /\ ~destroyed
    /\ pc = "data_handle"
    /\ pc' = "idle"
    /\ dot_input' = FALSE
    /\ delivered' = <<[input |-> input, to |-> to]>>
    /\ dataReplies' = dataReplies \o local
    /\ IF proxy.init
       THEN /\ io_remove
            /\ proxy' = [proxy EXCEPT !.started = TRUE]
            /\ state' = [state EXCEPT !.mail_data_output = FALSE]
            /\ input_left' = left
            /\ UNCHANGED <<tmpfile, anvil_rcpt, received>>
       ELSE client_input_data_finish(left)
    /\ UNCHANGED <<cfg, sessionVars, destroyed, lastCmd, replies>>

\* the proxy relays the next recipient's reply from the remote server
lmtp_proxy_reply(status) ==
    /\ ~destroyed
    /\ proxy.started
    /\ proxy.replied < Len(proxy.rcpts)
    /\ proxy' = [proxy EXCEPT !.replied = @ + 1]
    /\ dataReplies' = Append(dataReplies,
           R(status,
             <<smtp_address_encode(proxy.rcpts[proxy.replied + 1].address)>>))
    /\ UNCHANGED <<cfg, input_left, sessionVars, ioVars, destroyed, state,
                   tmpfile, anvil_rcpt, received, delivered, lastCmd,
                   replies>>

\* client_proxy_finish(): the proxy's completion callback
client_proxy_finish ==
    /\ ~destroyed
    /\ proxy.started
    /\ proxy.replied = Len(proxy.rcpts)
    /\ client_input_data_finish(input_left)
    /\ UNCHANGED <<cfg, sessionVars, dot_input, pc, destroyed, delivered,
                   lastCmd, replies, dataReplies>>

(***************************************************************************)
(* XCLIENT                                                                 *)
(***************************************************************************)
\* an ADDR value: whether it carries the IPV6: prefix, and the address
XclientAddr(value) ==
    CASE value = "IPV6:::1" -> [ipv6 |-> TRUE, addr |-> "::1"]
      [] value = "IPV6:10.0.0.2" -> [ipv6 |-> TRUE, addr |-> "10.0.0.2"]
      [] OTHER -> [ipv6 |-> FALSE, addr |-> value]

\* one turn of the loop over the attributes; an attribute is <<key, value>>
XclientAttr(st, f) ==
    LET key == f[1]
        value == f[2]
    IN
    IF key = "ADDR" THEN
        LET a == XclientAddr(value)
            ip == net_addr2ip(a.addr)
        IN
        IF ip.ret < 0 \/ (a.ipv6 /\ ip.ip \notin IPs6)
        THEN [st EXCEPT !.args_ok = FALSE]
        ELSE [st EXCEPT !.remote_ip = ip.ip]
    ELSE IF key = "PORT" THEN
        IF net_str2port(value).ret < 0 THEN [st EXCEPT !.args_ok = FALSE]
        ELSE [st EXCEPT !.remote_port = net_str2port(value).port]
    ELSE IF key = "TTL" THEN
        IF str_to_uint(value).ret < 0 THEN [st EXCEPT !.args_ok = FALSE]
        ELSE [st EXCEPT !.ttl = str_to_uint(value).num]
    ELSE IF key = "TIMEOUT" THEN
        IF str_to_uint(value).ret < 0 THEN [st EXCEPT !.args_ok = FALSE]
        ELSE [st EXCEPT !.timeout_secs = str_to_uint(value).num]
    ELSE st

RECURSIVE XclientLoop(_, _, _)
XclientLoop(args, i, st) ==
    IF i > Len(args) THEN st
    ELSE XclientLoop(args, i + 1, XclientAttr(st, args[i]))

XclientParse(args) ==
    XclientLoop(args, 1,
        [args_ok |-> TRUE, remote_ip |-> NULL, remote_port |-> 0,
         ttl |-> UINT_MAX, timeout_secs |-> 0])

\* client_is_trusted()
client_is_trusted == cfg.trusted

\* client->lmtp_set->login_greeting
login_greeting == <<"Dovecot ready.">>

\* the test forgotten: the attributes that parsed would be applied
cmd_xclient_args_never_bad(args_ok) == FALSE

\* if (!args_ok)
cmd_xclient_args_bad(args_ok) == ~args_ok

cmd_xclient(args) ==
    LET X == XclientParse(args) IN
    /\ CanDispatch
    /\ lastCmd' = Cmd("XCLIENT", <<args>>)
    /\ dataReplies' = <<>>
    /\ delivered' = <<>>
    /\ input_left' = "none"
    /\ IF ~client_is_trusted
       THEN /\ replies' = <<R("550 You are not from trusted IP", <<>>)>>
            /\ UNCHANGED <<cfg, sessionVars, ioVars, proxy, destroyed, state,
                           tmpfile, anvil_rcpt, received>>
       ELSE IF cmd_xclient_args_bad(X.args_ok)
       THEN /\ replies' = <<R("501 Invalid parameters", <<>>)>>
            /\ UNCHANGED <<cfg, sessionVars, ioVars, proxy, destroyed, state,
                           tmpfile, anvil_rcpt, received>>
       ELSE /\ client_state_reset
            /\ remote_ip' = IF X.remote_ip # NULL THEN X.remote_ip
                            ELSE remote_ip
            /\ remote_port' = IF X.remote_port # 0 THEN X.remote_port
                              ELSE remote_port
            /\ proxy_ttl' = IF X.ttl # UINT_MAX THEN X.ttl ELSE proxy_ttl
            /\ proxy_timeout_secs' = X.timeout_secs
            /\ replies' = <<R("220 %s %s", <<my_domain, login_greeting>>)>>
            /\ UNCHANGED <<cfg, lhlo, ssl_iostream, ioVars, destroyed>>

(***************************************************************************)
(* The inputs of the session.                                              *)
(***************************************************************************)
LhloArgs == { <<>>, <<"a">> }
LhloOob == {"other"}

PdErrReason == [ret |-> -1, reason |-> "reason", fields |-> <<>>]
PdErr == [ret |-> -1, reason |-> NULL, fields |-> <<>>]
PdNone == [ret |-> 0, reason |-> NULL, fields |-> <<>>]
Pd(fields) == [ret |-> 1, reason |-> NULL, fields |-> fields]

PdOther == <<<<"proxy", "">>, <<"host", "10.0.0.2">>>>

\* records without a host, for another server, for this server by host and
\* by hostip, with a rewritten username, and with one that is no address
PassdbRecords ==
    { <<<<"proxy", "">>>>,
      <<<<"proxy", "">>, <<"host", "10.0.0.2">>>>,
      <<<<"proxy", "">>, <<"host", "10.0.0.1">>>>,
      <<<<"proxy", "">>, <<"host", "mx">>, <<"hostip", "10.0.0.1">>>>,
      <<<<"proxy", "">>, <<"host", "10.0.0.1">>, <<"user", "v">>>>,
      <<<<"proxy", "">>, <<"host", "10.0.0.2">>, <<"user", "bad user">>>> }

PassdbAnswers == {PdErrReason, PdErr, PdNone} \cup {Pd(f) : f \in PassdbRecords}

RcptAddresses == { [user |-> "u1", detail |-> ""],
                   [user |-> "u2", detail |-> "d"] }

\* whether the record names a proxy target, and whether the RCPT can fall
\* through to the local lookup
PdTargets(pd) ==
    /\ pd.ret > 0
    /\ \E i \in 1..Len(pd.fields) : pd.fields[i][1] = "proxy"
    /\ \E i \in 1..Len(pd.fields) : pd.fields[i][1] = "host"
PdRewrite(pd) ==
    {pd.fields[i][2] : i \in {j \in 1..Len(pd.fields) :
                                 pd.fields[j][1] \in {"user", "destuser"}}}
PdFalls(pd) ==
    \/ pd.ret = 0
    \/ pd.ret > 0 /\ ~PdTargets(pd)
    \/ pd.ret > 0 /\ PdRewrite(pd) \cap InvalidUsernames # {}

\* the answers that change nothing the command does are left at a default
RcptInputCanonical(a) ==
    /\ a.address.detail # "" => a.pd \in {PdNone, Pd(PdOther)}
    /\ a.add < 0 => PdTargets(a.pd) /\ ~PdFalls(a.pd)
    /\ a.lookup # 1 => PdFalls(a.pd)
    /\ a.anvil = "null" => a.lookup = 1 /\ PdFalls(a.pd) /\ cfg.limit > 0

RcptInputs ==
    { [args |-> c, address |-> [user |-> "u1", detail |-> ""], pd |-> PdNone,
       lookup |-> 1, add |-> 0, anvil |-> "pending"] :
        c \in {"no_to", "bad_path", "bad_char", "BAD_SYNTAX", "NOT_SUPPORTED"} }
    \cup
    { a \in { [args |-> "ok", address |-> ad, pd |-> pd, lookup |-> l,
               add |-> ar, anvil |-> an] :
                ad \in RcptAddresses,
                pd \in (IF cfg.lmtp_proxy THEN PassdbAnswers ELSE {PdNone}),
                l \in {-1, 0, 1}, ar \in {0, -1}, an \in {"null", "pending"} } :
        RcptInputCanonical(a) }

HdrPolicies == {"NONE", "FINAL"}

XclientArgs ==
    { <<<<"TTL", "0">>>>,
      <<<<"TTL", "1">>>>,
      <<<<"TTL", "2">>>>,
      <<<<"TTL", "UINT_MAX">>>>,
      <<<<"TTL", "bad">>>> }

ChunkSizes == {1, 2}

Next ==
    \/ \E args \in LhloArgs, oob \in LhloOob :
          /\ (oob = "bracket" => LhloScanOverruns(args))
          /\ cmd_lhlo(args, oob)
    \/ \E ssl_init \in (IF cfg.ssl THEN {0, -1} ELSE {-1}),
          handshake \in {0, -1} :
          /\ (handshake < 0 => ssl_init = 0)
          /\ cmd_starttls(ssl_init, handshake)
    \/ \E a \in MailArgs : cmd_mail(a)
    \/ \E a \in RcptInputs :
          /\ Len(state.rcpt_to) < MaxRcpts
          /\ Len(proxy.rcpts) < MaxRcpts
          /\ cmd_rcpt(a)
    \/ cmd_quit
    \/ cmd_vrfy
    \/ cmd_rset
    \/ cmd_noop
    \/ \E policy \in HdrPolicies :
          /\ (policy # "NONE" => Len(state.rcpt_to) = 1)
          /\ cmd_data(policy)
    \/ \E args \in XclientArgs : cmd_xclient(args)
    \/ \E n \in {0, 1} : rcpt_anvil_lookup_callback(n)
    \/ \E r \in {0, -1} : client_input_data(r)
    \/ \E size \in ChunkSizes : \E io_ret \in AddOutcomes(size) :
          DataHandleRead(size, io_ret)
    \/ DataHandleWait
    \/ DataHandleError
    \/ \E open_ret \in {0, -1} :
       \E status \in [1..Len(state.rcpt_to) -> DeliveryStatuses] :
          /\ (open_ret < 0 =>
                /\ Len(state.rcpt_to) > 0
                /\ \A i \in 1..Len(state.rcpt_to) :
                      status[i] = "250 2.0.0 <%s> Saved")
          /\ client_input_data_write(open_ret, status, FALSE)
    \/ \E status \in DeliveryStatuses : lmtp_proxy_reply(status)
    \/ client_proxy_finish

Spec == Init /\ [][Next]_vars

(***************************************************************************)
(* The same session over the full range of LHLO and XCLIENT arguments and  *)
(* with commands pipelined behind the message body, for fewer kinds of     *)
(* recipients.                                                             *)
(***************************************************************************)
LhloArgsAll ==
    { <<>>, <<"a">>, <<"a", ".", "b">>, <<"a", ".">>, <<"a", " ", "b">>,
      <<"[", "1", "]">>, <<"[", "1", "]", "b">>, <<"[", "[", "]">>,
      <<"[", "1">>, <<"[", "a", "b">>, <<"[", "1", "\\">> }
LhloOobAll == {"bracket", "other"}

XclientArgsAll ==
    { <<<<"ADDR", "10.0.0.2">>, <<"PORT", "2000">>, <<"TIMEOUT", "30">>>>,
      <<<<"FOO", "x">>>>,
      <<<<"TTL", "2">>>>,
      <<<<"TTL", "UINT_MAX">>>>,
      <<<<"ADDR", "10.0.0.2">>, <<"TTL", "bad">>>>,
      <<<<"PORT", "bad">>, <<"TIMEOUT", "30">>>>,
      <<<<"ADDR", "IPV6:10.0.0.2">>>>,
      <<<<"TIMEOUT", "bad">>, <<"TTL", "2">>>>,
      <<<<"ADDR", "nohost">>, <<"FOO", "x">>>> }

MailArgsFew ==
    { a \in MailArgs : a.path = "s@x" /\ a.rest = "" /\ a.params = "ok" }

RcptInputsFew ==
    { [args |-> "ok", address |-> [user |-> "u1", detail |-> ""], pd |-> pd,
       lookup |-> 1, add |-> 0, anvil |-> "pending"] :
        pd \in (IF cfg.lmtp_proxy THEN {PdNone, Pd(PdOther)} ELSE {PdNone}) }

NextSession ==
    \/ \E args \in LhloArgsAll, oob \in LhloOobAll :
          /\ (oob = "bracket" => LhloScanOverruns(args))
          /\ cmd_lhlo(args, oob)
    \/ \E ssl_init \in (IF cfg.ssl THEN {0, -1} ELSE {-1}),
          handshake \in {0, -1} :
          /\ (handshake < 0 => ssl_init = 0)
          /\ cmd_starttls(ssl_init, handshake)
    \/ \E a \in MailArgsFew : cmd_mail(a)
    \/ \E a \in RcptInputsFew :
          /\ Len(state.rcpt_to) < MaxRcpts
          /\ Len(proxy.rcpts) < MaxRcpts
          /\ cmd_rcpt(a)
    \/ cmd_quit
    \/ cmd_vrfy
    \/ cmd_rset
    \/ cmd_noop
    \/ cmd_data("NONE")
    \/ \E args \in XclientArgsAll : cmd_xclient(args)
    \/ \E n \in {0, 1} : rcpt_anvil_lookup_callback(n)
    \/ \E r \in {0, -1} : client_input_data(r)
    \/ \E size \in ChunkSizes : \E io_ret \in AddOutcomes(size) :
          DataHandleRead(size, io_ret)
    \/ DataHandleWait
    \/ DataHandleError
    \/ \E status \in [1..Len(state.rcpt_to) -> {"250 2.0.0 <%s> Saved"}] :
       \E bytes_left \in BOOLEAN :
          client_input_data_write(0, status, bytes_left)
    \/ lmtp_proxy_reply("250 2.0.0 <%s> Saved")
    \/ client_proxy_finish

SpecSession == Init /\ [][NextSession]_vars

\* client_input_handle() called from client_input_data_finish() goes on to
\* the buffered command without returning to the ioloop
HandleBuffered == input_left = "handling" /\ NextSession

\* the proxy relays the replies of all its recipients and then calls the
\* completion callback it was started with
ProxyCompletes ==
    lmtp_proxy_reply("250 2.0.0 <%s> Saved") \/ client_proxy_finish

LiveSession ==
    SpecSession /\ WF_vars(HandleBuffered) /\ WF_vars(ProxyCompletes)

(***************************************************************************)
(* The proxying front end accepted on the LMTP port and on another port,   *)
(* over passdb records with port, protocol and proxy_timeout fields.       *)
(***************************************************************************)
ConfigsFields ==
    { [lmtp_proxy |-> TRUE, limit |-> 1, ssl |-> FALSE, trusted |-> TRUE,
       local_port |-> p] : p \in {24, 2000} }

PassdbFieldTails ==
    { <<>>,
      <<<<"protocol", "lmtp">>>>,
      <<<<"protocol", "smtp">>>>,
      <<<<"port", "2525">>>>,
      <<<<"port", "2525">>, <<"protocol", "smtp">>>>,
      <<<<"protocol", "smtp">>, <<"port", "2525">>>>,
      <<<<"port", "2525">>, <<"protocol", "lmtp">>>>,
      <<<<"protocol", "lmtp">>, <<"port", "25">>>>,
      <<<<"proxy_timeout", "30">>>>,
      <<<<"proxy_timeout", "30">>, <<"protocol", "smtp">>>>,
      <<<<"nopassword", "">>>>,
      <<<<"protocol", "imap">>>>,
      <<<<"port", "bad">>>>,
      <<<<"proxy_timeout", "bad">>>> }

RcptInputsFields ==
    { [args |-> "ok", address |-> [user |-> "u1", detail |-> ""],
       pd |-> Pd(PdOther \o tail), lookup |-> 0, add |-> 0,
       anvil |-> "pending"] : tail \in PassdbFieldTails }

InitFields == cfg \in ConfigsFields /\ Constructed

NextFields ==
    \/ \E a \in MailArgsFew : cmd_mail(a)
    \/ \E a \in RcptInputsFields :
          /\ Len(proxy.rcpts) < MaxRcpts
          /\ cmd_rcpt(a)
    \/ cmd_rset

SpecFields == InitFields /\ [][NextFields]_vars

(***************************************************************************)
(* Properties of the session.                                              *)
(***************************************************************************)
\* a step that dispatches a command line with this verb: every other step
\* needs the session busy or inside the body reader
Dispatch(verb) == CanDispatch /\ ~Busy /\ lastCmd'.verb = verb

LastReply(lines) == lines[Len(lines)]

MixedReply(address) ==
    R("451 4.3.0 <%s> Can't handle mixed proxy/non-proxy destinations",
      <<smtp_address_encode(address)>>)

MailNeeded == <<R("503 5.5.1 MAIL needed first", <<>>)>>
MailAccepted == <<R("250 2.1.0 OK", <<>>)>>
Data354 == <<R("354 OK", <<>>)>>

\* the step adds no recipient, not even a pending one
NothingAdded ==
    /\ state'.rcpt_to = state.rcpt_to
    /\ proxy' = proxy
    /\ anvil_rcpt' = anvil_rcpt

\* what the passdb record of RCPT input a makes of the recipient
PassdbParse(a) ==
    client_proxy_rcpt_parse_fields(ProxyRcptSetDefault, a.pd.fields,
                                   a.address.user)

\* the recipient routes to a proxy target: passdb names one, the rewritten
\* username is an address, the target is not this server and the TTL is left
ResolvesToProxy(a) ==
    /\ cfg.lmtp_proxy
    /\ a.args = "ok"
    /\ PdTargets(a.pd)
    /\ ~PdFalls(a.pd)
    /\ ~(PassdbParse(a).address = a.address.user
         /\ client_proxy_is_ourself(PassdbParse(a).set))
    /\ proxy_ttl > 1

\* the recipient routes to local delivery: passdb names no usable proxy
\* target and the storage lookup finds the user
ResolvesToLocal(a) ==
    /\ a.args = "ok"
    /\ ~cfg.lmtp_proxy \/ PdFalls(a.pd)
    /\ a.lookup > 0

\* the address a proxied recipient is added under
TargetAddress(a) ==
    IF PassdbParse(a).address = a.address.user THEN a.address
    ELSE [user |-> PassdbParse(a).address, detail |-> a.address.detail]

\* C1: every command line the dispatcher has handled (for DATA up to its 354
\* or error reply, for RCPT once a pending registry lookup has answered) was
\* answered by exactly one reply, the lines of a multi-line 250 counting as
\* one.
C1_ExactlyOneReply ==
    (lastCmd.verb # "none" /\ ~AnvilPending) => NumReplies(replies) = 1

\* C2 (state part): the envelope never holds an accepted proxy recipient
\* together with an accepted or pending local recipient
C2_NoMixedEnvelope ==
    Len(proxy.rcpts) = 0 \/ (Len(state.rcpt_to) = 0 /\ ~AnvilPending)

\* C2 (step part): an RCPT that routes to local while a proxy session exists,
\* and one that routes to a proxy target while local recipients are listed,
\* ends with the 451 mixed-destinations reply and adds nothing
C2_MixedRefused ==
    Dispatch("RCPT") /\ state.mail_from # NULL =>
        LET a == lastCmd'.in[1] IN
        /\ ResolvesToLocal(a) /\ proxy.init =>
              /\ LastReply(replies') = MixedReply(a.address)
              /\ NothingAdded
        /\ ResolvesToProxy(a) /\ Len(state.rcpt_to) > 0 =>
              /\ replies' = <<MixedReply(TargetAddress(a))>>
              /\ NothingAdded

\* C2: in every reachable state the envelope's accepted recipients are all
\* local or all proxied, and every RCPT of the other kind is refused with
\* "451 4.3.0 <addr> Can't handle mixed proxy/non-proxy destinations",
\* adding nothing, also when the local recipients came in through the
\* concurrency-registry lookup.
C2_Homogeneous == []C2_NoMixedEnvelope /\ [][C2_MixedRefused]_vars

\* a proxied RCPT was just refused as mixed, the local recipients having
\* been accepted through the registry lookup
C2_Witness ==
    /\ lastCmd.verb = "RCPT"
    /\ cfg.limit > 0
    /\ Len(state.rcpt_to) > 0
    /\ ResolvesToProxy(lastCmd.in[1])
    /\ replies = <<MixedReply(lastCmd.in[1].address)>>

\* C3: the proxy session exists exactly when at least one proxy recipient
\* has been accepted into the current envelope.
C3_ProxyIffAccepted == proxy.init <=> Len(proxy.rcpts) > 0

\* C4: a DATA that was answered 354 and is reading the body has an envelope
\* with at least one accepted recipient, local or proxied.
C4_DataNeedsRecipient ==
    (lastCmd.verb = "DATA" /\ replies = Data354 /\ dot_input) =>
        /\ state.mail_from # NULL
        /\ Len(state.rcpt_to) > 0 \/ Len(proxy.rcpts) > 0

\* C5 (step): a MAIL dispatched while an envelope exists is answered 503 and
\* changes neither the envelope nor the proxy session
C5_MailStep ==
    Dispatch("MAIL") /\ state.mail_from # NULL =>
        /\ replies' = <<R("503 5.5.1 MAIL already given", <<>>)>>
        /\ state' = state
        /\ proxy' = proxy

\* C5: whenever an envelope exists, a further MAIL, whatever its arguments,
\* is rejected with "503 5.5.1 MAIL already given" and leaves the sender,
\* the MAIL parameters and the recipient list as they were.
C5_SecondMailRejected == [][C5_MailStep]_vars

\* an otherwise acceptable MAIL with another sender was just rejected, the
\* envelope holding a recipient
C5_Witness ==
    /\ lastCmd.verb = "MAIL"
    /\ replies = <<R("503 5.5.1 MAIL already given", <<>>)>>
    /\ lastCmd.in[1].from
    /\ lastCmd.in[1].params = "ok"
    /\ lastCmd.in[1].rest \in {"", " "}
    /\ lastCmd.in[1].path \notin {"bad", state.mail_from}
    /\ state.mail_from # NULL
    /\ Len(state.rcpt_to) > 0

Mail501555 ==
    {"501 5.5.4 Invalid parameters", "501 5.5.4 Invalid FROM: %s",
     "501 5.5.4 Invalid FROM: Invalid character in path", "501 5.5.4 %s",
     "555 5.5.4 %s"}

\* a step that resets the session state: a successful LHLO, RSET or XCLIENT,
\* the end of the DATA fan-out, or the end of the session
ResetStep ==
    \/ destroyed'
    \/ Dispatch("RSET")
    \/ Dispatch("LHLO") /\ replies'[1].fmt = "250-%s"
    \/ Dispatch("XCLIENT") /\ replies'[1].fmt = "220 %s %s"
    \/ dot_input /\ ~dot_input'
    \/ proxy.started /\ ~proxy'.started

\* C6 (step): an envelope appears only with a MAIL answered 250 2.1.0 OK and
\* with each of them, goes only with a reset, and RCPT is answered 503 and
\* adds nothing exactly where there is none
C6_EnvelopeStep ==
    /\ state.mail_from = NULL /\ state'.mail_from # NULL =>
          Dispatch("MAIL") /\ replies' = MailAccepted
    /\ Dispatch("MAIL") /\ replies' = MailAccepted =>
          state.mail_from = NULL /\ state'.mail_from # NULL
    /\ Dispatch("MAIL") /\ replies'[1].fmt \in Mail501555 =>
          state.mail_from = NULL /\ state' = state
    /\ state.mail_from # NULL /\ state'.mail_from = NULL => ResetStep
    /\ Dispatch("RCPT") =>
          /\ (MailNeeded = replies') <=> (state.mail_from = NULL)
          /\ state.mail_from = NULL => NothingAdded /\ state' = state

\* C6: the envelope exists exactly when a MAIL was accepted with 250 2.1.0 OK
\* since the last reset; a MAIL rejected with 501 or 555 creates none; RCPT
\* is rejected with "503 5.5.1 MAIL needed first", adding no recipient, in
\* exactly the states without an envelope.
C6_EnvelopeIffMail == [][C6_EnvelopeStep]_vars

\* a MAIL was just rejected with 555 and there is no envelope
C6_Witness ==
    /\ lastCmd.verb = "MAIL"
    /\ replies[1].fmt = "555 5.5.4 %s"
    /\ state.mail_from = NULL

\* no sender, no recipients, no proxy session, no pending lookup, no payload
Clean ==
    /\ state = StateZero
    /\ proxy = ProxyNULL
    /\ anvil_rcpt = NoRcpt
    /\ ~tmpfile.open
    /\ tmpfile.data = <<>>
    /\ received = <<>>

\* the success reply of LHLO, RSET or XCLIENT has been written, or the
\* fan-out of a DATA has completed, and no command was dispatched since
ResetReplied ==
    \/ lastCmd.verb = "RSET"
    \/ lastCmd.verb = "LHLO" /\ replies[1].fmt = "250-%s"
    \/ lastCmd.verb = "XCLIENT" /\ replies[1].fmt = "220 %s %s"
    \/ lastCmd.verb = "DATA" /\ replies = Data354 /\ ~dot_input
       /\ ~proxy.started

\* C7 (state part): once the success reply is out, or the fan-out is done,
\* nothing of the envelope or the payload is left
C7_Clean == ResetReplied => Clean

\* C7 (step part): the RCPT that follows is answered 503 and the acceptable
\* MAIL that follows is accepted
C7_NextCommand ==
    ResetReplied =>
        /\ Dispatch("RCPT") => replies' = MailNeeded
        /\ Dispatch("MAIL") /\ lastCmd'.in[1].from
           /\ lastCmd'.in[1].path # "bad" /\ lastCmd'.in[1].rest \in {"", " "}
           /\ lastCmd'.in[1].params = "ok" =>
              /\ replies' = MailAccepted
              /\ state'.mail_from = lastCmd'.in[1].path

\* C7: after a successful LHLO, RSET or XCLIENT, and after the DATA fan-out,
\* the session holds no sender, no recipients, no proxy session and no
\* payload sink, the next RCPT yields 503 and the next MAIL is accepted; no
\* state exists in which the success reply of LHLO, RSET or XCLIENT is out
\* and the reset is still to come.
C7_NoStateRetained == []C7_Clean /\ [][C7_NextCommand]_vars

\* the fan-out of a message to a full recipient list has completed, the
\* payload having been spilled to the file
C7_Witness ==
    /\ lastCmd.verb = "DATA"
    /\ ~destroyed
    /\ delivered # <<>>
    /\ Len(delivered[1].to) = MaxRcpts
    /\ Len(delivered[1].input.body) > CLIENT_MAIL_DATA_MAX_INMEMORY_SIZE
    /\ ~proxy.started
    /\ Clean

\* C8: no command is dispatched while a registry lookup is pending, while
\* the body is read or while the fan-out runs: the command reader is not
\* attached then, at most one reader is attached at any time, and whenever a
\* command can be dispatched the RCPT or DATA before it has its reply or
\* replies written.
C8_ReaderDetachedWhileBusy ==
    /\ NumReaders <= 1
    /\ Busy => "client_input" \notin Readers
    /\ ~lastCmd.busy
    /\ CanDispatch /\ lastCmd.verb = "RCPT" => NumReplies(replies) >= 1
    /\ CanDispatch /\ lastCmd.verb = "DATA" /\ replies = Data354 =>
          /\ delivered # <<>>
          /\ Len(dataReplies) = Len(delivered[1].to)

\* a registry lookup is pending behind an accepted recipient and no reader
\* is attached
C8_Witness ==
    /\ AnvilPending
    /\ Readers = {}
    /\ Len(state.rcpt_to) > 0
    /\ lastCmd.verb = "RCPT"

\* C9 (state part): the replies written after the body are for the
\* recipients of the fan-out, in their order, one each when it is done, and
\* it is done before another command can be dispatched
C9_OnePerRecipient ==
    /\ delivered # <<>> =>
          /\ Len(dataReplies) <= Len(delivered[1].to)
          /\ \A i \in 1..Len(dataReplies) :
                dataReplies[i].args[1] = smtp_address_encode(delivered[1].to[i])
          /\ ~proxy.started => Len(dataReplies) = Len(delivered[1].to)
    /\ CanDispatch /\ lastCmd.verb = "DATA" /\ replies = Data354 =>
          delivered # <<>> /\ ~proxy.started

\* C9 (step part): when the payload cannot be opened as raw mail, every local
\* recipient gets the 451 temporary-error line, in the list's order
C9_OpenFailure ==
    \A status \in [1..Len(state.rcpt_to) -> {"250 2.0.0 <%s> Saved"}] :
        (\E left \in BOOLEAN : client_input_data_write(-1, status, left)) =>
            /\ Len(dataReplies') = Len(state.rcpt_to)
            /\ \A i \in 1..Len(state.rcpt_to) :
                  dataReplies'[i] =
                      R(ERRSTR_TEMP_MAILBOX_FAIL,
                        <<smtp_address_encode(state.rcpt_to[i].address)>>)

\* C9: after the DATA terminator exactly one reply line is written per
\* accepted recipient, in the order the recipients were added, all of them
\* before the reply to any following command; when the payload cannot be
\* opened as raw mail every local recipient gets one
\* "451 4.3.0 <addr> Temporary internal error" line in that order.
C9_RepliesInOrder == []C9_OnePerRecipient /\ [][C9_OpenFailure]_vars

\* the raw mail could not be opened for two different recipients, and each
\* got its 451 line
C9_Witness ==
    /\ delivered # <<>>
    /\ Len(delivered[1].to) >= 2
    /\ delivered[1].to[1] # delivered[1].to[2]
    /\ Len(dataReplies) = Len(delivered[1].to)
    /\ \A i \in 1..Len(dataReplies) :
          dataReplies[i] = R(ERRSTR_TEMP_MAILBOX_FAIL,
                             <<smtp_address_encode(delivered[1].to[i])>>)

\* C10 (step): an RCPT for which passdb names a proxy target, dispatched with
\* the inbound TTL at 0 or 1, is answered by one 554 5.4.6 line and adds no
\* recipient
C10_TtlStep ==
    Dispatch("RCPT") /\ state.mail_from # NULL /\ cfg.lmtp_proxy
    /\ lastCmd'.in[1].args = "ok" /\ PdTargets(lastCmd'.in[1].pd)
    /\ proxy_ttl <= 1 =>
        /\ Len(replies') = 1
        /\ replies'[1].fmt \in
              {"554 5.4.6 <%s> Proxying appears to be looping (TTL=0)",
               "554 5.4.6 <%s> Proxying loops to itself"}
        /\ NothingAdded

\* C10: an RCPT that passdb marks as proxied is refused with a 554 5.4.6
\* reply and adds no recipient whenever the inbound proxy_ttl is 0 or 1.
C10_TtlRefused == [][C10_TtlStep]_vars

\* C11 (step): an RCPT whose passdb record marks the recipient as proxied to
\* this server's own address and port is answered by the one self-loop line
\* and adds no recipient
C11_SelfLoopStep ==
    Dispatch("RCPT") /\ state.mail_from # NULL /\ cfg.lmtp_proxy
    /\ lastCmd'.in[1].args = "ok" /\ lastCmd'.in[1].pd.ret > 0
    /\ PassdbParse(lastCmd'.in[1]).ret
    /\ client_proxy_is_ourself(PassdbParse(lastCmd'.in[1]).set) =>
        /\ replies' = <<R("554 5.4.6 <%s> Proxying loops to itself",
                          <<smtp_address_encode(lastCmd'.in[1].address)>>)>>
        /\ NothingAdded

\* C11: whenever passdb marks a recipient as proxied and the proxy target
\* (hostip, else host as an IP, with the port) is the session's own
\* (local_ip, local_port), the RCPT is refused with
\* "554 5.4.6 <addr> Proxying loops to itself" and no proxy recipient is
\* added, whether or not the record rewrites the username.
C11_SelfLoopRefused == [][C11_SelfLoopStep]_vars

\* the session-id the k-th accepted recipient is to carry
SessionIdOf(k) == IF k = 1 THEN <<>> ELSE <<k>>

\* C12: within one envelope the k-th accepted local recipient carries the
\* base session-id for k = 1 and "{base}:{k}" for k >= 2, so the ids are
\* pairwise distinct, whatever RCPTs were refused in between; a recipient
\* waiting for the concurrency registry carries the id of the place it will
\* take.
C12_SessionIdsDistinct ==
    /\ \A k \in 1..Len(state.rcpt_to) :
          state.rcpt_to[k].session_id = SessionIdOf(k)
    /\ \A j, k \in 1..Len(state.rcpt_to) :
          j # k => state.rcpt_to[j].session_id # state.rcpt_to[k].session_id
    /\ AnvilPending =>
          anvil_rcpt[1].session_id = SessionIdOf(Len(state.rcpt_to) + 1)

\* two different recipients were accepted through the registry lookup, the
\* second one just now
C12_Witness ==
    /\ Len(state.rcpt_to) = 2
    /\ cfg.limit > 0
    /\ state.rcpt_to[1].address # state.rcpt_to[2].address
    /\ state.rcpt_to[2].session_id = <<2>>
    /\ lastCmd.verb = "RCPT"
    /\ LastReply(replies) = R("250 2.1.5 OK", <<>>)

\* the local path's answer to RCPT input a on a session without a proxy
\* session: the lookup's error, the unknown user, or the recipient accepted
\* or handed to the concurrency registry
LocalPathTaken(a) ==
    /\ a.lookup < 0 =>
          replies' = <<R(ERRSTR_TEMP_MAILBOX_FAIL,
                        <<smtp_address_encode(a.address)>>)>> /\ NothingAdded
    /\ a.lookup = 0 =>
          replies'[1].fmt = "550 5.1.1 <%s> User doesn't exist: %s"
          /\ Len(replies') = 1 /\ NothingAdded
    /\ a.lookup > 0 /\ ~proxy.init =>
          \/ replies' = <<R("250 2.1.5 OK", <<>>)>>
             /\ Len(state'.rcpt_to) = Len(state.rcpt_to) + 1
          \/ replies' = <<>> /\ anvil_rcpt' # NoRcpt

\* C13 (step): the RCPT whose passdb lookup fails is answered by one
\* "451 4.3.0 <addr> ..." line with the reason or the default text and goes
\* no further; the RCPT whose lookup finds no record gets no line from the
\* proxy step and takes the local path
C13_PassdbStep ==
    Dispatch("RCPT") /\ state.mail_from # NULL /\ cfg.lmtp_proxy
    /\ lastCmd'.in[1].args = "ok" =>
        LET a == lastCmd'.in[1] IN
        /\ a.pd.ret < 0 =>
              /\ Len(replies') = 1
              /\ replies'[1].args[1] = smtp_address_encode(a.address)
              /\ IF a.pd.reason = NULL
                 THEN replies'[1].fmt = ERRSTR_TEMP_USERDB_FAIL
                 ELSE /\ replies'[1].fmt = "451 4.3.0 <%s> %s"
                      /\ replies'[1].args[2] = <<a.pd.reason>>
              /\ NothingAdded
        /\ a.pd.ret = 0 => LocalPathTaken(a)

\* C13: a passdb error (ret < 0) is answered by the single line
\* "451 4.3.0 <addr> reason-or-default", the recipient is not added and the
\* local lookup is not tried; no record (ret == 0) writes nothing in the
\* proxy step and falls through to the local path.
C13_PassdbErrorReply == [][C13_PassdbStep]_vars

\* C15 (step): a STARTTLS dispatched while an envelope exists leaves the
\* transport as it is, and one dispatched with TLS active is answered 443
\* and changes nothing of the session
C15_StarttlsStep ==
    Dispatch("STARTTLS") =>
        /\ state.mail_from # NULL => ssl_iostream' = ssl_iostream
        /\ ssl_iostream =>
              /\ replies' = <<R("443 5.5.1 TLS is already active.", <<>>)>>
              /\ UNCHANGED <<cfg, sessionVars, ioVars, proxy, destroyed,
                             state, tmpfile, anvil_rcpt, received>>

\* C15: STARTTLS upgrades the transport only in the states Idle and Greeted:
\* issued while an envelope exists it does not start TLS, and issued while
\* TLS is active it is answered "443 5.5.1 TLS is already active." with the
\* session unchanged.
C15_StarttlsOnlyBeforeEnvelope == [][C15_StarttlsStep]_vars

SinkFailure == R("451 4.3.0 Temporary internal failure", <<>>)

\* the bytes the payload sink holds: the file's when spilled, the buffer's
\* otherwise
SinkContent ==
    IF state.mail_data_output THEN tmpfile.data ELSE state.mail_data[1]

\* C16 (state part): nothing is delivered while the body is being read, and
\* a session destroyed during DATA has delivered nothing and has written no
\* line after the 354 but, at most, the sink-failure line
C16_NoEarlyDelivery ==
    /\ dot_input => delivered = <<>> /\ dataReplies = <<>>
    /\ lastCmd.verb = "DATA" /\ replies = Data354 /\ destroyed =>
          /\ delivered = <<>>
          /\ dataReplies \in {<<>>, <<SinkFailure>>}

\* C16 (step part): a failed sink write destroys the session with the 451
\* line, a stream error destroys it without any line, a read without data
\* does neither, and the step that begins the fan-out is the terminator's,
\* with the sink holding every byte read
C16_DataStep ==
    /\ \A size \in ChunkSizes :
       \A io_ret \in AddOutcomes(size) \ {"ok"} :
          DataHandleRead(size, io_ret) =>
              /\ destroyed'
              /\ dataReplies' = <<SinkFailure>>
              /\ replies' = replies
              /\ delivered' = <<>>
    /\ DataHandleError =>
          /\ destroyed'
          /\ dataReplies' = <<>>
          /\ replies' = replies
          /\ delivered' = <<>>
    /\ DataHandleWait =>
          /\ ~destroyed'
          /\ dot_input'
          /\ delivered' = <<>>
          /\ dataReplies' = <<>>
    /\ delivered' # <<>> /\ delivered = <<>> =>
          /\ pc = "data_handle"
          /\ dot_input /\ ~dot_input'
          /\ ~destroyed'
          /\ SinkContent = received

\* C16: the fan-out begins only after the dot-stream terminator was read and
\* every sink write succeeded; a connection error before the terminator
\* destroys the session with no reply and no delivery, a failed sink write
\* destroys it with "451 4.3.0 Temporary internal failure" and no delivery,
\* and a read that has no more data yet neither delivers nor destroys.
C16_FanOutAfterTerminator == []C16_NoEarlyDelivery /\ [][C16_DataStep]_vars

\* the session was destroyed by a failure of the payload sink during DATA
C16_Witness ==
    /\ destroyed
    /\ lastCmd.verb = "DATA"
    /\ replies = Data354
    /\ dataReplies = <<SinkFailure>>
    /\ delivered = <<>>

\* the trace header lines that open the Received block
ReceivedLines(headers) ==
    {i \in 1..Len(headers) : headers[i].fmt = "Received: from %s"}

\* C17 (state part): while the body is read the sink holds exactly the bytes
\* received, in order, and the added headers hold one Received block
C17_SinkHoldsBody ==
    /\ dot_input /\ ~destroyed =>
          /\ SinkContent = received
          /\ Cardinality(ReceivedLines(state.added_headers)) = 1
    /\ \A i \in 1..Len(received) : received[i] = i

\* C17 (step part): the stream handed to delivery is the added headers, then
\* every body byte in arrival order
C17_HandedStep ==
    delivered' # <<>> /\ delivered = <<>> =>
        /\ delivered'[1].input.headers = state.added_headers
        /\ delivered'[1].input.body = received
        /\ Cardinality(ReceivedLines(delivered'[1].input.headers)) = 1

\* C17: for every sequence of body chunks the stream handed to delivery is
\* the synthesized trace headers followed by every chunk received, in
\* arrival order, none lost, duplicated or reordered, whether the payload
\* stayed in memory or was spilled to the file at any chunk boundary; the
\* Received block occurs once, before the body.
C17_StreamIsHeadersThenBody == []C17_SinkHoldsBody /\ [][C17_HandedStep]_vars

\* a payload one byte over the in-memory ceiling, spilled on the way, was
\* handed to delivery for a local recipient
C17_Witness ==
    /\ delivered # <<>>
    /\ Len(delivered[1].input.body) = CLIENT_MAIL_DATA_MAX_INMEMORY_SIZE + 1
    /\ \A i \in 1..Len(delivered[1].input.body) :
          delivered[1].input.body[i] = i
    /\ Cardinality(ReceivedLines(delivered[1].input.headers)) = 1
    /\ Len(delivered[1].to) > 0

\* C18: whenever the sink is spilled its file has no name left: the fd is
\* recorded and the first byte written only after the unlink succeeded, and
\* when creation or unlink fails the sink is not spilled and no fd is open.
C18_SpilledIsUnlinked ==
    /\ state.mail_data_output =>
          tmpfile.open /\ ~tmpfile.path /\ state.mail_data_fd # -1
    /\ tmpfile.open => ~tmpfile.path /\ state.mail_data_fd # -1
    /\ tmpfile.data # <<>> => tmpfile.open /\ ~tmpfile.path
    /\ tmpfile.path => ~tmpfile.open /\ ~state.mail_data_output

\* the payload is spilled and the body is still being read
C18_Witness ==
    /\ dot_input
    /\ state.mail_data_output
    /\ tmpfile.open
    /\ Len(tmpfile.data) > CLIENT_MAIL_DATA_MAX_INMEMORY_SIZE

\* the attribute, taken alone, is one of ADDR, PORT, TTL, TIMEOUT with a
\* value that does not parse
XclientAttrBad(f) ==
    ~XclientAttr([args_ok |-> TRUE, remote_ip |-> NULL, remote_port |-> 0,
                  ttl |-> UINT_MAX, timeout_secs |-> 0], f).args_ok

\* the step changes nothing but the record of the command and its reply
SessionUnchanged ==
    UNCHANGED <<cfg, sessionVars, ioVars, proxy, destroyed, state, tmpfile,
                anvil_rcpt, received>>

\* C14 (step): the XCLIENT of a session that is not trusted is answered 550,
\* the XCLIENT of a trusted session with an attribute that does not parse is
\* answered 501, both changing nothing; every other XCLIENT of a trusted
\* session succeeds
C14_XclientStep ==
    Dispatch("XCLIENT") =>
        LET args == lastCmd'.in[1]
            bad == \E i \in 1..Len(args) : XclientAttrBad(args[i])
        IN
        /\ ~cfg.trusted =>
              /\ replies' = <<R("550 You are not from trusted IP", <<>>)>>
              /\ SessionUnchanged
        /\ cfg.trusted /\ bad =>
              /\ replies' = <<R("501 Invalid parameters", <<>>)>>
              /\ SessionUnchanged
        /\ cfg.trusted /\ ~bad => replies'[1].fmt = "220 %s %s"

\* C14: a refused XCLIENT leaves the whole session state unchanged, the
\* envelope and its recipients included: "550 You are not from trusted IP"
\* for a session that is not trusted, whatever the attributes, and 501 for a
\* trusted session when any of ADDR, PORT, TTL, TIMEOUT fails to parse, with
\* none of the valid attributes applied and no reset; unknown attributes
\* never make the command fail.
C14_RefusedXclientChangesNothing == [][C14_XclientStep]_vars

\* an XCLIENT whose ADDR parsed and whose TTL did not was just refused, the
\* envelope holding a recipient
C14_Witness ==
    /\ lastCmd.verb = "XCLIENT"
    /\ replies = <<R("501 Invalid parameters", <<>>)>>
    /\ lastCmd.in[1] = <<<<"ADDR", "10.0.0.2">>, <<"TTL", "bad">>>>
    /\ remote_ip = InitRemoteIp
    /\ state.mail_from # NULL
    /\ Len(state.rcpt_to) > 0

\* the LHLO arguments that are a dot-atom: atoms of atext joined by single
\* dots
ValidDotAtom(args) ==
    /\ args # <<>>
    /\ \A i \in 1..Len(args) : IS_ATEXT(args[i]) \/ args[i] = "."
    /\ args[1] # "." /\ args[Len(args)] # "."
    /\ \A i \in 1..(Len(args) - 1) : ~(args[i] = "." /\ args[i + 1] = ".")

\* the LHLO arguments that are an address-literal: "[", content without
\* brackets or backslash, "]"
ValidLiteral(args) ==
    /\ Len(args) >= 3
    /\ args[1] = "[" /\ args[Len(args)] = "]"
    /\ \A i \in 2..(Len(args) - 1) : args[i] \notin {"[", "]", "\\"}

InvalidName == <<"i", "n", "v", "a", "l", "i", "d">>

\* C19 (step): an LHLO with an argument is answered by the 250 set; a valid
\* argument is stored as it is, and "invalid" is stored only for an argument
\* that is neither a dot-atom nor an address-literal
C19_LhloStep ==
    Dispatch("LHLO") /\ lastCmd'.in[1] # <<>> =>
        LET args == lastCmd'.in[1] IN
        /\ replies' = LhloLines
        /\ ValidDotAtom(args) \/ ValidLiteral(args) => lhlo' = args
        /\ lhlo' = InvalidName => ~ValidDotAtom(args) /\ ~ValidLiteral(args)

\* C19: for every valid LHLO argument the greeting name stored in the
\* session equals the argument, a dot-atom as that dot-atom and an
\* address-literal as that literal; only an unparsable argument is stored
\* as "invalid", and the command then still succeeds with the 250 set.
C19_GreetingIsArgument == [][C19_LhloStep]_vars

\* the session reads commands again and holds no envelope
CommandMode ==
    /\ CanDispatch
    /\ ~Busy
    /\ state.mail_from = NULL
    /\ ~proxy.init

\* C20 (safety part): while the proxy is delivering, the command reader is
\* detached and the envelope is still there, and buffered commands are
\* taken up only in command mode
C20_NotBefore ==
    /\ proxy.started =>
          ~CanDispatch /\ state.mail_from # NULL /\ input_left # "handling"
    /\ input_left = "handling" => CommandMode

\* C20: once the DATA terminator has been read the session eventually is in
\* command mode again, with the reader attached and the envelope reset,
\* after local delivery and, with a proxy session, after its completion
\* callback and not before; commands buffered behind the body are then
\* handled without waiting for socket input.
C20_ReturnsToCommandMode ==
    /\ (delivered # <<>>) ~> CommandMode
    /\ (input_left # "none") ~> (input_left = "none")
    /\ []C20_NotBefore

\* a proxied message was delivered, the session is in command mode again and
\* is about to handle the command buffered behind the body
C20_Witness ==
    /\ delivered # <<>>
    /\ delivered[1].input.headers[1].fmt = "Received: from %s"
    /\ Len(dataReplies) = Len(delivered[1].to)
    /\ input_left = "handling"
    /\ CommandMode

\* C21 (state part): the in-memory buffer never exceeds the ceiling
C21_BufferWithinCeiling ==
    state.mail_data # <<>> =>
        MailDataUsed <= CLIENT_MAIL_DATA_MAX_INMEMORY_SIZE

\* C21 (step part): an append that succeeds goes to the buffer while the sink
\* is in memory and the buffer stays at or below the ceiling, moves buffer
\* and chunk to the file when the buffer would exceed it, and goes to the
\* file once the sink is spilled, whatever its size; a spilled sink is in
\* memory again only when the DATA is over
C21_AppendStep ==
    /\ \A size \in ChunkSizes :
       \A io_ret \in AddOutcomes(size) :
          DataHandleRead(size, io_ret) /\ ~destroyed' =>
              IF state.mail_data_output
              THEN /\ state'.mail_data_output
                   /\ state'.mail_data = state.mail_data
                   /\ tmpfile'.data = tmpfile.data \o NextChunk(size)
              ELSE IF MailDataUsed + size <= CLIENT_MAIL_DATA_MAX_INMEMORY_SIZE
              THEN /\ ~state'.mail_data_output
                   /\ state'.mail_data[1] =
                          state.mail_data[1] \o NextChunk(size)
                   /\ tmpfile' = tmpfile
              ELSE /\ state'.mail_data_output
                   /\ state'.mail_data = state.mail_data
                   /\ tmpfile'.data = state.mail_data[1] \o NextChunk(size)
    /\ state.mail_data_output /\ ~state'.mail_data_output =>
          ~dot_input' \/ destroyed'

\* C21: within one DATA the sink stays in memory as long as each append
\* keeps the buffered size at or below the ceiling (reaching it exactly
\* included), the first append that would exceed it moves the sink to the
\* file, every later append goes to the file even when it would fit in
\* memory, the sink never returns to memory, and the buffer never exceeds
\* the ceiling.
C21_SpillIsOneWay == []C21_BufferWithinCeiling /\ [][C21_AppendStep]_vars

\* after the spill the file took a chunk that the buffer had room for
C21_Witness ==
    /\ dot_input
    /\ state.mail_data_output
    /\ MailDataUsed < CLIENT_MAIL_DATA_MAX_INMEMORY_SIZE
    /\ Len(tmpfile.data) = CLIENT_MAIL_DATA_MAX_INMEMORY_SIZE + 2
    /\ tmpfile.data = received

\* the passdb record sets proxy and gives no host
ProxyWithoutHost(pd) ==
    /\ pd.ret > 0
    /\ \E i \in 1..Len(pd.fields) : pd.fields[i][1] = "proxy"
    /\ \A i \in 1..Len(pd.fields) : pd.fields[i][1] # "host"

\* C22 (step): the RCPT whose passdb record sets proxy without a host is
\* answered by one error line and adds no recipient, accepted or pending
C22_NoHostStep ==
    Dispatch("RCPT") /\ state.mail_from # NULL /\ cfg.lmtp_proxy
    /\ lastCmd'.in[1].args = "ok"
    /\ ProxyWithoutHost(lastCmd'.in[1].pd) =>
        /\ Len(replies') = 1
        /\ replies'[1].fmt # "250 2.1.5 OK"
        /\ NothingAdded

\* C22: when the passdb record of an RCPT sets proxy but gives no host, the
\* RCPT is a configuration error: it is answered with an error reply and no
\* recipient, proxy or local, is added to the envelope for that command.
C22_ProxyWithoutHostRefused == [][C22_NoHostStep]_vars

\* the values of the fields with this key, in the record's order
FieldValues(fields, key) ==
    SelectSeq(fields, LAMBDA f : f[1] = key)

\* the protocol the record asks for: its protocol field, else LMTP
RecordProtocol(fields) ==
    IF FieldValues(fields, "protocol") = <<>> THEN SMTP_PROTOCOL_LMTP
    ELSE FieldValues(fields, "protocol")[1][2]

\* the port the record asks for: its port field, else the protocol's default
RecordPort(fields) ==
    IF FieldValues(fields, "port") # <<>>
    THEN net_str2port(FieldValues(fields, "port")[1][2]).port
    ELSE IF RecordProtocol(fields) = SMTP_PROTOCOL_SMTP THEN 25 ELSE 24

\* the timeout the record asks for: its proxy_timeout in ms, else 125000
RecordTimeout(fields) ==
    IF FieldValues(fields, "proxy_timeout") # <<>>
    THEN str_to_uint(FieldValues(fields, "proxy_timeout")[1][2]).num * 1000
    ELSE 125000

\* C23 (step): the target of a proxy recipient just added carries the port,
\* protocol and timeout its passdb record asks for
C23_TargetStep ==
    Dispatch("RCPT") /\ Len(proxy'.rcpts) = Len(proxy.rcpts) + 1 =>
        LET fields == lastCmd'.in[1].pd.fields
            set == proxy'.rcpts[Len(proxy'.rcpts)].set
        IN
        /\ set.port = RecordPort(fields)
        /\ set.protocol = RecordProtocol(fields)
        /\ set.timeout_msecs = RecordTimeout(fields)

\* C23: for every passdb field list of a proxied recipient the target port
\* is the explicit port field if one is given, before or after the protocol
\* field, and otherwise the protocol default, 24 for LMTP (also when no
\* protocol field is given) and 25 for SMTP; the protocol defaults to LMTP
\* and the timeout to 125000 ms.
C23_PortIsExplicitOrDefault == [][C23_TargetStep]_vars

\* C24 (step): the XCLIENT of a trusted session whose attributes all parse
\* writes the attributes given over the session's remote address, remote
\* port and TTL and keeps those not given, sets the proxy timeout to the
\* TIMEOUT given or to 0, resets the envelope and answers with the greeting
C24_XclientStep ==
    Dispatch("XCLIENT") /\ cfg.trusted
    /\ (\A i \in 1..Len(lastCmd'.in[1]) :
           ~XclientAttrBad(lastCmd'.in[1][i])) =>
        LET args == lastCmd'.in[1]
            Has(key) == FieldValues(args, key) # <<>>
            Val(key) == FieldValues(args, key)[1][2]
        IN
        /\ remote_ip' = IF Has("ADDR")
                         THEN net_addr2ip(XclientAddr(Val("ADDR")).addr).ip
                         ELSE remote_ip
        /\ remote_port' = IF Has("PORT") THEN net_str2port(Val("PORT")).port
                           ELSE remote_port
        /\ proxy_ttl' = IF Has("TTL") THEN str_to_uint(Val("TTL")).num
                         ELSE proxy_ttl
        /\ proxy_timeout_secs' = IF Has("TIMEOUT")
                                  THEN str_to_uint(Val("TIMEOUT")).num
                                  ELSE 0
        /\ UNCHANGED <<cfg, lhlo, ssl_iostream>>
        /\ state' = StateZero
        /\ proxy' = ProxyNULL
        /\ anvil_rcpt' = NoRcpt
        /\ replies' = <<R("220 %s %s", <<my_domain, login_greeting>>)>>

\* C24: a successful XCLIENT changes only what it was given: remote IP,
\* remote port and proxy TTL are overwritten exactly when ADDR, PORT and TTL
\* are present and keep their values otherwise, the proxy timeout is the
\* TIMEOUT given or 0, greeting name, TLS status and trust flag are
\* unchanged, the envelope is reset and the reply is the 220 greeting.
C24_XclientAppliesWhatItWasGiven == [][C24_XclientStep]_vars

\* C25 (step): the scan of an LHLO argument that begins with '[' stops at a
\* character of the argument, and an argument without a closing bracket is
\* stored as "invalid"
C25_LhloStep ==
    Dispatch("LHLO") /\ lastCmd'.in[1] # <<>>
    /\ lastCmd'.in[1][1] = "[" =>
        LET args == lastCmd'.in[1] IN
        /\ LiteralScan(args, 2) <= Len(args)
        /\ (\A i \in 1..Len(args) : args[i] # "]") => lhlo' = InvalidName

\* C25: for every LHLO argument that begins with '[' the address-literal
\* scan stays inside the argument: it never reads a position at or beyond
\* the terminating NUL, also when the argument holds no ']', no backslash
\* and no second '[' (as in "[abc"), and every such unterminated literal is
\* recorded as "invalid".
C25_LiteralScanStaysInside == [][C25_LhloStep]_vars

====
